---- MODULE Spec2Model ----
\* A model of the lisk-vanity search coordinator (src/src/main.rs): the main
\* thread that spawns the CPU workers, the accelerator worker and the progress
\* reporter, the workers' loops around check_solution, the two shared atomic
\* counters, and the big-endian increment of the key material.
EXTENDS Integers, Sequences, FiniteSets, TLC

\* ---------------------------------------------------------------- bounds
\* Largest number of CPU worker threads (-t) the model explores.
MaxThreads == 1
\* Largest result limit (-l) the model explores; 0 (unbounded) is always included.
MaxLimit == 2
\* Largest number of loop iterations (Solutions printed, CPU candidates rejected,
\* accelerator batches) the workers make together before the model stops them.
MaxWork == 3

\* ---------------------------------------------------------------- constants
\* [0u8; 32]: the key material is a 32-byte buffer.
KeyLen == 32
\* u8::wrapping_add wraps at 256.
ByteMod == 256
\* The exit status of a Rust process whose main thread panicked.
PanicCode == 101

\* ---------------------------------------------------------------- keys
\* A 32-byte key material, zero but for its last two bytes.
Key(a, b) == [i \in 1..KeyLen |-> IF i = KeyLen - 1 THEN a ELSE IF i = KeyLen THEN b ELSE 0]

\* The all-zero key material: the initial value of the buffers.
KeyZero == [i \in 1..KeyLen |-> 0]

\* The all-ones key material, whose increment wraps around to zero.
KeyMax == [i \in 1..KeyLen |-> ByteMod - 1]

\* The values rng.fill_bytes may draw in the model.
DrawSet == {Key(0, ByteMod - 1), KeyMax}


\* The accelerator batch sizes (--gpu-threads) the model explores.
GpuThreadsSet == {1, 3}

\* The sets of key materials whose derived public key the matcher accepts.
AcceptSets == { {}, {KeyMax}, {Key(1, 0), KeyZero} }

\* for byte in key_or_seed.iter_mut().rev(): add 1, stop at the first byte
\* that did not wrap to 0.
RECURSIVE IncrementFrom(_, _)
IncrementFrom(k, i) ==
    IF i = 0 THEN k
    ELSE LET b == (k[i] + 1) % ByteMod
             k2 == [k EXCEPT ![i] = b]
         IN IF b # 0 THEN k2 ELSE IncrementFrom(k2, i - 1)

IncrementNoCarry(k) == [k EXCEPT ![Len(k)] = (@ + 1) % ByteMod]

Increment(k) == IncrementFrom(k, Len(k))

\* The candidates the device may hand back for a batch base. Whether one
\* matches is for the host to find out.
GpuCandidates(key_base) == {key_base}

\* The value of a byte sequence read as a big-endian unsigned integer.
RECURSIVE BigEndian(_)
BigEndian(k) ==
    IF Len(k) = 0 THEN 0
    ELSE BigEndian(SubSeq(k, 1, Len(k) - 1)) * ByteMod + k[Len(k)]

\* ---------------------------------------------------------------- state
VARIABLES
    threads,          \* -t: the number of CPU workers requested
    gpu,              \* -g: whether the accelerator worker is requested
    limit,            \* -l: the result limit, 0 = unbounded
    output_progress,  \* !--no-progress
    gpu_threads,      \* --gpu-threads: the accelerator batch size
    accepts,          \* the key materials the matcher accepts
    found_n,          \* the shared found counter (AtomicUsize)
    attempts,         \* the shared attempts counter (AtomicUsize)
    mainPc,           \* the main thread's position
    spawned,          \* the number of CPU workers spawned so far
    pc,               \* each worker's position; worker 0 is the accelerator worker
    key,              \* each worker's key material under test
    reporter,         \* whether the progress reporter thread is alive
    sample,           \* the attempts value the reporter read last
    stdout,           \* the Solutions printed, in order
    stderr,           \* the lines of text written to stderr with eprintln!, in order
    exited,           \* whether the process has terminated
    exit_code,        \* its exit status
    exitedBy,         \* which thread terminated it
    notfound,         \* the number of candidates the CPU workers have rejected
    batches,          \* the number of accelerator batches computed
    cursor,           \* reduced-width increment check: the current value
    cursorStart,      \* reduced-width increment check: the first value
    cursorSteps,      \* reduced-width increment check: the increments made
    matcher,          \* matcher check: two length bounds, their thresholds, an address
    compare,          \* comparison check: an address and a threshold as byte arrays
    derivation        \* derivation check: a seed on its way to a public key

vars == << threads, gpu, limit, output_progress, gpu_threads, accepts, found_n,
           attempts, mainPc, spawned, pc, key, reporter, sample,
           stdout, stderr, exited, exit_code, exitedBy, notfound, batches,
           cursor, cursorStart, cursorSteps, matcher, compare, derivation >>

config == << threads, gpu, limit, output_progress, gpu_threads, accepts >>
cursorVars == << cursor, cursorStart, cursorSteps >>
pureVars == << cursorVars, matcher, compare, derivation >>
mainVars == << mainPc, spawned >>
exitVars == << exited, exit_code, exitedBy >>

Workers == 0..MaxThreads
CpuWorkers == 1..MaxThreads
IsGpu(w) == w = 0

\* params.matcher.matches(&secret_to_pubkey(key_material, ..)): a fixed
\* function of the key material.
Matches(k) == k \in accepts

\* The loop iterations the workers have made together.
Work == Len(stdout) + notfound + batches

\* The number of workers of the run: the CPU workers plus the accelerator worker.
WorkerCount == threads + (IF gpu THEN 1 ELSE 0)

\* The value of a check's variable in the runs that do not make that check.
Unused == [phase |-> "unused"]

\* The state main builds before it spawns anything: both counters at 0.
Started ==
    /\ found_n = 0
    /\ attempts = 0
    /\ mainPc = "estimate"
    /\ spawned = 0
    /\ pc = [w \in Workers |-> "unspawned"]
    /\ key = [w \in Workers |-> KeyZero]
    /\ reporter = FALSE
    /\ sample = 0
    /\ stdout = << >>
    /\ stderr = << >>
    /\ exited = FALSE
    /\ exit_code = 0
    /\ exitedBy = "none"
    /\ notfound = 0
    /\ batches = 0

\* The state after argument parsing, for every command line the model explores.
Init ==
    /\ threads \in 0..MaxThreads
    /\ gpu \in BOOLEAN
    /\ limit \in 0..MaxLimit
    /\ output_progress \in BOOLEAN
    /\ gpu_threads \in (IF gpu /\ output_progress THEN GpuThreadsSet ELSE {1})
    /\ accepts \in AcceptSets
    /\ Started
    /\ cursor = << >>
    /\ cursorStart = << >>
    /\ cursorSteps = 0
    /\ matcher = Unused
    /\ compare = Unused
    /\ derivation = Unused

\* ---------------------------------------------------------------- main thread
\* A panic of the main thread ends the process with the panic exit code.
MainPanics ==
    /\ exited' = TRUE
    /\ exit_code' = PanicCode
    /\ exitedBy' = "main"
    /\ mainPc' = "exited"

\* The lines of the main thread's eprintln! calls.
EstimateLine == [msg |-> "Estimated attempts needed", key |-> << >>]
NoDevicesLine == [msg |-> "No computation devices specified", key |-> << >>]

\* The line of check_solution's eprintln!("").
EmptyLine == [msg |-> "", key |-> << >>]

\* eprintln!("Estimated attempts needed: {}", estimated_attempts);
MainEstimate ==
    /\ ~exited
    /\ mainPc = "estimate"
    /\ stderr' = Append(stderr, EstimateLine)
    /\ mainPc' = "spawn"
    /\ UNCHANGED << config, found_n, attempts, spawned, pc, key, reporter,
                    sample, stdout, exitVars, notfound, batches, pureVars >>

\* The write to stderr fails: eprintln! panics in the main thread.
MainEstimateFails ==
    /\ ~exited
    /\ mainPc = "estimate"
    /\ MainPanics
    /\ UNCHANGED << config, found_n, attempts, spawned, pc, key, reporter,
                    sample, stdout, stderr, notfound, batches, pureVars >>

\* for _ in 0..threads: draw key_or_seed in the main thread, spawn the worker.
MainSpawnCpu ==
    /\ ~exited
    /\ mainPc = "spawn"
    /\ spawned < threads
    /\ \E k \in DrawSet :
          key' = [key EXCEPT ![spawned + 1] = k]
    /\ pc' = [pc EXCEPT ![spawned + 1] = "check"]
    /\ spawned' = spawned + 1
    /\ UNCHANGED << config, found_n, attempts, mainPc, reporter, sample,
                    stdout, stderr, exitVars, notfound, batches, pureVars >>

\* OsRng::new() returned Err and the expect panics in the main thread, or
\* thread::spawn could not create the worker's thread and panics there.
MainSpawnCpuFails ==
    /\ ~exited
    /\ mainPc = "spawn"
    /\ spawned < threads
    /\ MainPanics
    /\ UNCHANGED << config, found_n, attempts, spawned, pc, key, reporter,
                    sample, stdout, stderr, notfound, batches, pureVars >>

\* if args.is_present("gpu"): Gpu::new(..).unwrap(), then spawn the GPU thread.
MainSpawnGpu ==
    /\ ~exited
    /\ mainPc = "spawn"
    /\ spawned = threads
    /\ pc' = IF gpu THEN [pc EXCEPT ![0] = "batch"] ELSE pc
    /\ mainPc' = "progress"
    /\ UNCHANGED << config, found_n, attempts, spawned, key, reporter,
                    sample, stdout, stderr, exitVars, notfound, batches, pureVars >>

\* Gpu::new returned Err and the unwrap panics in the main thread, or
\* thread::spawn could not create the GPU thread and panics there.
MainGpuInitFails ==
    /\ ~exited
    /\ mainPc = "spawn"
    /\ spawned = threads
    /\ gpu
    /\ MainPanics
    /\ UNCHANGED << config, found_n, attempts, spawned, pc, key, reporter,
                    sample, stdout, stderr, notfound, batches, pureVars >>

\* thread::spawn could not create the reporter's thread and panics in the main
\* thread, with the workers spawned before it running.
MainSpawnReporterFails ==
    /\ ~exited
    /\ mainPc = "progress"
    /\ output_progress
    /\ MainPanics
    /\ UNCHANGED << config, found_n, attempts, spawned, pc, key, reporter,
                    sample, stdout, stderr, notfound, batches, pureVars >>

\* if output_progress: spawn the progress reporter.
MainSpawnReporter ==
    /\ ~exited
    /\ mainPc = "progress"
    /\ reporter' = output_progress
    /\ mainPc' = "join"
    /\ UNCHANGED << config, found_n, attempts, spawned, pc, key, sample,
                    stdout, stderr, exitVars, notfound, batches, pureVars >>

MainNoDevicesUnguarded ==
    /\ ~exited
    /\ mainPc = "join"
    /\ stderr' = Append(stderr, NoDevicesLine)
    /\ mainPc' = "nodevices"
    /\ UNCHANGED << config, found_n, attempts, spawned, pc, key, reporter,
                    sample, stdout, exitVars, notfound, batches, pureVars >>

\* The joins return at once when there is nothing to join:
\* eprintln!("No computation devices specified"). The line is written and the
\* stderr lock released before process::exit is called.
MainNoDevices ==
    /\ ~exited
    /\ mainPc = "join"
    /\ ~gpu
    /\ threads = 0
    /\ stderr' = Append(stderr, NoDevicesLine)
    /\ mainPc' = "nodevices"
    /\ UNCHANGED << config, found_n, attempts, spawned, pc, key, reporter,
                    sample, stdout, exitVars, notfound, batches, pureVars >>

\* process::exit(1) after that line.
MainExitOne ==
    /\ ~exited
    /\ mainPc = "nodevices"
    /\ exited' = TRUE
    /\ exit_code' = 1
    /\ exitedBy' = "main"
    /\ mainPc' = "exited"
    /\ UNCHANGED << config, found_n, attempts, spawned, pc, key, reporter,
                    sample, stdout, stderr, notfound, batches, pureVars >>

\* The write of that line fails: eprintln! panics before process::exit(1).
MainNoDevicesFails ==
    /\ ~exited
    /\ mainPc = "join"
    /\ ~gpu
    /\ threads = 0
    /\ MainPanics
    /\ UNCHANGED << config, found_n, attempts, spawned, pc, key, reporter,
                    sample, stdout, stderr, notfound, batches, pureVars >>

\* gpu_thread.join().expect(..): the GPU thread panicked, so the main thread does.
MainJoinGpuPanicked ==
    /\ ~exited
    /\ mainPc = "join"
    /\ gpu
    /\ pc[0] = "panicked"
    /\ MainPanics
    /\ UNCHANGED << config, found_n, attempts, spawned, pc, key, reporter,
                    sample, stdout, stderr, notfound, batches, pureVars >>

\* for handle in thread_handles: handle.join().expect(..): without a GPU
\* thread to wait for, the main thread waits for the first CPU worker; that
\* worker panicked, so the main thread does.
MainJoinCpuPanicked ==
    /\ ~exited
    /\ mainPc = "join"
    /\ ~gpu
    /\ threads >= 1
    /\ pc[1] = "panicked"
    /\ MainPanics
    /\ UNCHANGED << config, found_n, attempts, spawned, pc, key, reporter,
                    sample, stdout, stderr, notfound, batches, pureVars >>

\* ---------------------------------------------------------------- check_solution
CountedAlways(n) == attempts + n

CountedOne(n) == IF output_progress THEN attempts + 1 ELSE attempts

CountedLost(n) == attempts

\* if output_progress { params.attempts.fetch_add(n, Relaxed); }: the attempts
\* counter after a worker has counted n attempts.
Counted(n) == IF output_progress THEN attempts + n ELSE attempts

\* params.limit != 0: the left operand of the &&, which decides whether the
\* fetch_add is evaluated at all.
LimitEnabled == limit # 0

PostIncrementTwice == found_n + 2

PostIncrementLost == found_n

\* The value found_n.fetch_add(1) + 1 that the limit is compared with.
PostIncrement == found_n + 1

LimitReachedLate == PostIncrement > limit

LimitReachedPre == found_n >= limit

\* Whether check_solution goes on to process::exit(0) after its fetch_add.
LimitReached == PostIncrement >= limit

\* print_solution(key_material, ..): one println!, before the limit is looked
\* at. stdout keeps the key material of each Solution printed. When the write
\* fails println! panics in the worker's thread and nothing is printed.
PrintSolution(w) ==
    \/ /\ stdout' = Append(stdout, key[w])
       /\ pc' = [pc EXCEPT ![w] = "fetch"]
    \/ /\ stdout' = stdout
       /\ pc' = [pc EXCEPT ![w] = "panicked"]

\* The start of check_solution's branch for a match: with progress on,
\* eprintln!("") comes first, ending the progress line with an empty line, and
\* print_solution is the worker's next step; when that write fails the worker
\* panics before it prints. With progress off the branch starts with
\* print_solution.
Found(w) ==
    IF output_progress
    THEN /\ stdout' = stdout
         /\ \/ /\ stderr' = Append(stderr, EmptyLine)
               /\ pc' = [pc EXCEPT ![w] = "print"]
            \/ /\ stderr' = stderr
               /\ pc' = [pc EXCEPT ![w] = "panicked"]
    ELSE /\ PrintSolution(w)
         /\ stderr' = stderr

\* print_solution after the empty line of a run with progress on.
CallPrintSolution(w) ==
    /\ ~exited
    /\ pc[w] = "print"
    /\ PrintSolution(w)
    /\ UNCHANGED << config, found_n, attempts, mainVars, key, reporter, sample,
                    stderr, exitVars, notfound, batches, pureVars >>

FetchAddKeepsKey(w) ==
    /\ ~exited
    /\ pc[w] = "fetch"
    /\ found_n' = IF LimitEnabled THEN PostIncrement ELSE found_n
    /\ IF LimitEnabled /\ LimitReached
       THEN pc' = [pc EXCEPT ![w] = "exit"]
       ELSE IF IsGpu(w)
       THEN pc' = [pc EXCEPT ![w] = "batch"]
       ELSE pc' = [pc EXCEPT ![w] = "check"]
    /\ UNCHANGED << config, attempts, mainVars, key, reporter, sample,
                    stdout, stderr, exitVars, notfound, batches, pureVars >>

\* if params.limit != 0 && params.found_n.fetch_add(1) + 1 >= params.limit:
\* the fetch_add is only evaluated when limit != 0. Without an exit,
\* check_solution returns true and the worker's loop goes on: a CPU worker
\* redraws its key material, the GPU worker starts its next batch.
FetchAdd(w) ==
    /\ ~exited
    /\ pc[w] = "fetch"
    /\ found_n' = IF LimitEnabled THEN PostIncrement ELSE found_n
    /\ IF LimitEnabled /\ LimitReached
       THEN /\ pc' = [pc EXCEPT ![w] = "exit"]
            /\ key' = key
       ELSE IF IsGpu(w)
       THEN /\ pc' = [pc EXCEPT ![w] = "batch"]
            /\ key' = key
       ELSE /\ pc' = [pc EXCEPT ![w] = "check"]
            /\ \E k \in DrawSet : key' = [key EXCEPT ![w] = k]
    /\ UNCHANGED << config, attempts, mainVars, reporter, sample,
                    stdout, stderr, exitVars, notfound, batches, pureVars >>

\* process::exit(0) from within the worker.
ProcessExit(w) ==
    /\ ~exited
    /\ pc[w] = "exit"
    /\ exited' = TRUE
    /\ exit_code' = 0
    /\ exitedBy' = IF IsGpu(w) THEN "gpu" ELSE "cpu"
    /\ UNCHANGED << config, found_n, attempts, mainVars, pc, key, reporter,
                    sample, stdout, stderr, notfound, batches, pureVars >>

\* ---------------------------------------------------------------- CPU worker
\* One pass of the CPU worker's loop up to its first write or shared operation:
\* check_solution starts its branch for a match; otherwise it returns false,
\* the attempt is counted when progress is on and key_or_seed is incremented.
CpuCheck(w) ==
    /\ ~exited
    /\ ~IsGpu(w)
    /\ pc[w] = "check"
    /\ Work < MaxWork
    /\ IF Matches(key[w])
       THEN /\ Found(w)
            /\ UNCHANGED << attempts, key, notfound >>
       ELSE /\ attempts' = Counted(1)
            /\ key' = [key EXCEPT ![w] = Increment(@)]
            /\ notfound' = notfound + 1
            /\ UNCHANGED << stdout, stderr, pc >>
    /\ UNCHANGED << config, found_n, mainVars, reporter, sample,
                    exitVars, batches, pureVars >>

\* ---------------------------------------------------------------- GPU worker
\* rng.fill_bytes(&mut key_base); gpu.compute(&key_base); attempts += gpu_threads when
\* progress is on; a returned candidate goes to check_solution.
GpuCompute ==
    /\ ~exited
    /\ pc[0] = "batch"
    /\ Work < MaxWork
    /\ batches' = batches + 1
    /\ attempts' = Counted(gpu_threads)
    /\ \E key_base \in DrawSet :
          \/ /\ pc' = pc
             /\ key' = key
          \/ \E found_private_key \in GpuCandidates(key_base) :
                /\ key' = [key EXCEPT ![0] = found_private_key]
                /\ pc' = [pc EXCEPT ![0] = "check"]
    /\ UNCHANGED << config, found_n, mainVars, reporter, sample, stdout, stderr,
                    exitVars, notfound, pureVars >>

\* let mut rng = OsRng::new().expect(..) at the start of the GPU thread:
\* OsRng::new() returned Err and the expect panics in the GPU thread.
GpuRngFails ==
    /\ ~exited
    /\ pc[0] = "batch"
    /\ batches = 0
    /\ pc' = [pc EXCEPT ![0] = "panicked"]
    /\ UNCHANGED << config, found_n, attempts, mainVars, key, reporter, sample,
                    stdout, stderr, exitVars, notfound, batches, pureVars >>

\* gpu.compute(..) returned Err: the expect panics in the GPU thread.
GpuComputeFails ==
    /\ ~exited
    /\ pc[0] = "batch"
    /\ pc' = [pc EXCEPT ![0] = "panicked"]
    /\ UNCHANGED << config, found_n, attempts, mainVars, key, reporter, sample,
                    stdout, stderr, exitVars, notfound, batches, pureVars >>

\* if !check_solution(&params, found_private_key): the host re-derives and
\* re-tests the device's candidate; a match starts check_solution's branch for
\* it; a mismatch is logged with eprintln! and the loop goes on with the next
\* batch, or the write fails and eprintln! panics in the GPU thread.
GpuCheck ==
    /\ ~exited
    /\ pc[0] = "check"
    /\ IF Matches(key[0])
       THEN Found(0)
       ELSE /\ stdout' = stdout
            /\ \/ /\ stderr' = Append(stderr, [msg |-> "GPU returned non-matching solution",
                                               key |-> key[0]])
                  /\ pc' = [pc EXCEPT ![0] = "batch"]
               \/ /\ stderr' = stderr
                  /\ pc' = [pc EXCEPT ![0] = "panicked"]
    /\ UNCHANGED << config, found_n, attempts, mainVars, key, reporter,
                    sample, exitVars, notfound, batches, pureVars >>

\* ---------------------------------------------------------------- reporter
ReporterSampleResets ==
    /\ ~exited
    /\ reporter
    /\ sample' = attempts
    /\ attempts' = 0
    /\ UNCHANGED << config, found_n, mainVars, pc, key, reporter,
                    stdout, stderr, exitVars, notfound, batches, pureVars >>

\* attempts.load(Relaxed), eprint! of the progress line, sleep. The line starts
\* with a carriage return and replaces the progress line shown before.
ReporterSample ==
    /\ ~exited
    /\ reporter
    /\ sample' = attempts
    /\ UNCHANGED << config, found_n, attempts, mainVars, pc, key, reporter,
                    stdout, stderr, exitVars, notfound, batches, pureVars >>

\* The write of the progress line fails: eprint! panics in the reporter's
\* thread, which nothing joins; the value it had read goes with the thread.
ReporterSampleFails ==
    /\ ~exited
    /\ reporter
    /\ reporter' = FALSE
    /\ sample' = 0
    /\ UNCHANGED << config, found_n, attempts, mainVars, pc, key,
                    stdout, stderr, exitVars, notfound, batches, pureVars >>

\* ---------------------------------------------------------------- specification
Next ==
    \/ MainEstimate
    \/ MainEstimateFails
    \/ MainSpawnCpu
    \/ MainSpawnCpuFails
    \/ MainSpawnGpu
    \/ MainGpuInitFails
    \/ MainSpawnReporter
    \/ MainSpawnReporterFails
    \/ MainNoDevices
    \/ MainExitOne
    \/ MainNoDevicesFails
    \/ MainJoinGpuPanicked
    \/ MainJoinCpuPanicked
    \/ \E w \in CpuWorkers : CpuCheck(w)
    \/ \E w \in Workers : CallPrintSolution(w)
    \/ \E w \in Workers : FetchAdd(w)
    \/ \E w \in Workers : ProcessExit(w)
    \/ GpuRngFails
    \/ GpuCompute
    \/ GpuComputeFails
    \/ GpuCheck
    \/ ReporterSample
    \/ ReporterSampleFails

Spec == Init /\ [][Next]_vars

\* ---------------------------------------------------------------- reduced cursor
\* The increment of the CPU worker's loop applied over and over to a two-byte
\* cursor, from a drawn first value, until it has made as many increments as
\* there are two-byte values.
CursorStarts == { << 0, 0 >>, << 7, ByteMod - 2 >>, << ByteMod - 1, ByteMod - 1 >> }

CursorValues == ByteMod * ByteMod

InitCursor ==
    /\ threads = 0
    /\ gpu = FALSE
    /\ limit = 0
    /\ output_progress = FALSE
    /\ gpu_threads = 1
    /\ accepts = {}
    /\ Started
    /\ cursorStart \in CursorStarts
    /\ cursor = cursorStart
    /\ cursorSteps = 0
    /\ matcher = Unused
    /\ compare = Unused
    /\ derivation = Unused

CursorStep ==
    /\ cursorSteps < CursorValues
    /\ cursor' = Increment(cursor)
    /\ cursorSteps' = cursorSteps + 1
    /\ UNCHANGED << config, found_n, attempts, mainVars, pc, key, reporter, sample,
                    stdout, stderr, exitVars, notfound, batches, cursorStart,
                    matcher, compare, derivation >>

NextCursor == CursorStep

SpecCursor == InitCursor /\ [][NextCursor]_vars

\* ---------------------------------------------------------------- matcher
\* Numbers beyond the range of the checker's integers are sequences of decimal
\* digits, most significant first, without leading zeros (0 is << 0 >>).

\* The largest maximum length the matcher is built for.
MaxLength == 20

\* The width in bits of the address value (u64).
U64Bits == 64

\* a < b for two such numbers: fewer digits, or as many and a smaller digit at
\* the first place where they differ.
DecLess(a, b) ==
    IF Len(a) # Len(b) THEN Len(a) < Len(b)
    ELSE \E i \in 1..Len(a) :
            /\ a[i] < b[i]
            /\ \A j \in 1..(i - 1) : a[j] = b[j]

\* The digits of a natural number of the checker's integers.
RECURSIVE DecOf(_)
DecOf(n) == IF n < 10 THEN << n >> ELSE Append(DecOf(n \div 10), n % 10)

\* m * d for a small factor m, digit by digit from the right with a carry.
RECURSIVE DecTimesFrom(_, _, _, _)
DecTimesFrom(d, m, i, carry) ==
    IF i = 0 THEN (IF carry = 0 THEN d ELSE DecOf(carry) \o d)
    ELSE LET v == m * d[i] + carry
         IN DecTimesFrom([d EXCEPT ![i] = v % 10], m, i - 1, v \div 10)

DecTimes(d, m) == DecTimesFrom(d, m, Len(d), 0)

\* 2^n for n a multiple of 16, sixteen bits at a time.
RECURSIVE TwoPow(_)
TwoPow(n) == IF n = 0 THEN << 1 >> ELSE DecTimes(TwoPow(n - 16), 2^16)

\* 10^n: a one followed by n zeros.
TenPow(n) == [i \in 1..(n + 1) |-> IF i = 1 THEN 1 ELSE 0]

\* 10^n - 1 for n >= 1: n nines.
Nines(n) == [i \in 1..n |-> 9]

\* 2^64, one past the largest address value.
U64Range == TwoPow(U64Bits)

\* 2^64 - 1 (the last digit of a power of two is not 0).
U64Max == [U64Range EXCEPT ![Len(U64Range)] = @ - 1]

ThresholdSaturating(max_length) ==
    IF DecLess(TenPow(max_length), U64Range) THEN TenPow(max_length)
    ELSE TenPow(max_length - 1)

ThresholdOneDigitMore(max_length) == TenPow(max_length + 1)

\* PubkeyMatcher::new(max_length): Threshold = 10^max_length.
Threshold(max_length) == TenPow(max_length)

\* matcher.matches: accept iff the address value < Threshold.
MatchesAddress(address, threshold) == DecLess(address, threshold)

\* The address values the check draws: 0, the largest value of each length,
\* the smallest value of each length, and the largest u64.
AddressSamples ==
    {<< 0 >>, U64Max}
      \cup { Nines(n) : n \in 1..(MaxLength - 1) }
      \cup { TenPow(n) : n \in 1..(MaxLength - 1) }

InitMatcher ==
    /\ threads = 0
    /\ gpu = FALSE
    /\ limit = 0
    /\ output_progress = FALSE
    /\ gpu_threads = 1
    /\ accepts = {}
    /\ Started
    /\ cursor = << >>
    /\ cursorStart = << >>
    /\ cursorSteps = 0
    /\ \E n1 \in 1..MaxLength, n2 \in 1..MaxLength, a \in AddressSamples :
          matcher = [phase |-> "args", max_length1 |-> n1, max_length2 |-> n2,
                     address |-> a, threshold1 |-> << >>, threshold2 |-> << >>,
                     accepted1 |-> FALSE, accepted2 |-> FALSE]
    /\ compare = Unused
    /\ derivation = Unused

\* Build the matcher for each of the two maximum lengths.
MatcherNew ==
    /\ matcher.phase = "args"
    /\ matcher' = [matcher EXCEPT !.phase = "built",
                                  !.threshold1 = Threshold(matcher.max_length1),
                                  !.threshold2 = Threshold(matcher.max_length2)]
    /\ UNCHANGED << config, found_n, attempts, mainVars, pc, key, reporter, sample,
                    stdout, stderr, exitVars, notfound, batches, cursorVars,
                    compare, derivation >>

\* Test the address against each of the two matchers.
MatcherMatches ==
    /\ matcher.phase = "built"
    /\ matcher' = [matcher EXCEPT
                      !.phase = "tested",
                      !.accepted1 = MatchesAddress(matcher.address, matcher.threshold1),
                      !.accepted2 = MatchesAddress(matcher.address, matcher.threshold2)]
    /\ UNCHANGED << config, found_n, attempts, mainVars, pc, key, reporter, sample,
                    stdout, stderr, exitVars, notfound, batches, cursorVars,
                    compare, derivation >>

NextMatcher ==
    \/ MatcherNew
    \/ MatcherMatches

SpecMatcher == InitMatcher /\ [][NextMatcher]_vars

\* ---------------------------------------------------------------- compare
\* The width in bytes of the reduced address values and thresholds.
CmpWidth == 2

\* The byte values the check draws for each position.
CmpBytes == {0, 1, 127, 128, ByteMod - 1}

\* The numbers the check draws: every arrangement of the drawn bytes.
CmpNumbers == { BigEndian(s) : s \in [1..CmpWidth -> CmpBytes] }

ToLittleEndianBytes(n, width) ==
    [i \in 1..width |-> (n \div ByteMod^(i - 1)) % ByteMod]

\* The fixed-width big-endian byte array of n: the most significant byte first.
ToBigEndianBytes(n, width) ==
    [i \in 1..width |-> (n \div ByteMod^(width - i)) % ByteMod]

\* The accelerator's test: a is below b at the first byte where they differ.
LexLess(a, b) ==
    \E i \in 1..Len(a) :
        /\ a[i] < b[i]
        /\ \A j \in 1..(i - 1) : a[j] = b[j]

InitCompare ==
    /\ threads = 0
    /\ gpu = FALSE
    /\ limit = 0
    /\ output_progress = FALSE
    /\ gpu_threads = 1
    /\ accepts = {}
    /\ Started
    /\ cursor = << >>
    /\ cursorStart = << >>
    /\ cursorSteps = 0
    /\ matcher = Unused
    /\ \E v \in CmpNumbers, t \in CmpNumbers :
          compare = [phase |-> "args", value |-> v, threshold |-> t,
                     value_bytes |-> << >>, threshold_bytes |-> << >>,
                     accept_bytes |-> FALSE, accept_numeric |-> FALSE]
    /\ derivation = Unused

\* Export the address value and the Threshold as big-endian byte arrays.
CompareExport ==
    /\ compare.phase = "args"
    /\ compare' = [compare EXCEPT
                      !.phase = "exported",
                      !.value_bytes = ToBigEndianBytes(compare.value, CmpWidth),
                      !.threshold_bytes = ToBigEndianBytes(compare.threshold, CmpWidth)]
    /\ UNCHANGED << config, found_n, attempts, mainVars, pc, key, reporter, sample,
                    stdout, stderr, exitVars, notfound, batches, cursorVars,
                    matcher, derivation >>

\* Run the accelerator's test on the bytes and the CPU's test on the numbers.
CompareTest ==
    /\ compare.phase = "exported"
    /\ compare' = [compare EXCEPT
                      !.phase = "compared",
                      !.accept_bytes = LexLess(compare.value_bytes, compare.threshold_bytes),
                      !.accept_numeric = compare.value < compare.threshold]
    /\ UNCHANGED << config, found_n, attempts, mainVars, pc, key, reporter, sample,
                    stdout, stderr, exitVars, notfound, batches, cursorVars,
                    matcher, derivation >>

NextCompare ==
    \/ CompareExport
    \/ CompareTest

SpecCompare == InitCompare /\ [][NextCompare]_vars

\* ---------------------------------------------------------------- derivation
\* The hash and the point operations are uninterpreted: each result is the
\* term of the function and its arguments. The scalar of the extended
\* derivation is computed, since different key materials give the same scalar.

\* The result, of outlen bytes, of a Blake2b hasher fed the bytes of input.
Blake2b(outlen, input) == [fn |-> "Blake2b", outlen |-> outlen, input |-> input]

\* SecretKey::from_bytes and PublicKey::from_secret::<Blake2b>.
ed25519_privkey_to_pubkey(sec) == [fn |-> "ed25519_privkey_to_pubkey", sec |-> sec]

\* The order of the basepoint, 2^252 + 27742317777372353535851937790883648493,
\* as 32 little-endian bytes.
BASEPOINT_ORDER ==
    << 237, 211, 245, 92, 26, 99, 18, 88, 214, 156, 247, 162, 222, 249, 222, 20,
       0, 0, 0, 0, 0, 0, 0, 0, 0, 0, 0, 0, 0, 0, 0, 16 >>

\* Whether the first n bytes of a, read as a little-endian integer, are less
\* than the first n bytes of b.
LittleEndianLess(a, b, n) ==
    \E i \in 1..n :
        /\ a[i] < b[i]
        /\ \A j \in (i + 1)..n : a[j] = b[j]

\* a - b for little-endian a >= b: byte by byte, with a borrow from byte i
\* when the bytes below it are less in a than in b.
LittleEndianMinus(a, b) ==
    [i \in 1..Len(a) |->
        (a[i] - b[i] - (IF LittleEndianLess(a, b, i - 1) THEN 1 ELSE 0)) % ByteMod]

\* Scalar::from_bytes_mod_order: the 32 bytes, read as a little-endian
\* integer, reduced modulo the order of the basepoint.
RECURSIVE from_bytes_mod_order(_)
from_bytes_mod_order(bytes) ==
    IF LittleEndianLess(bytes, BASEPOINT_ORDER, Len(bytes))
    THEN bytes
    ELSE from_bytes_mod_order(LittleEndianMinus(bytes, BASEPOINT_ORDER))

\* The compressed sum of scalar * basepoint and the public offset.
ExtendedPubkey(key_material) ==
    [fn |-> "compress", scalar |-> from_bytes_mod_order(key_material),
     offset |-> "offset"]

GenerateKeyType == {"PrivateKey", "Seed", "ExtendedPrivateKey"}

\* The key material 5 as a little-endian integer, and the key material that
\* exceeds it by the order of the basepoint.
KeyFive == [i \in 1..KeyLen |-> IF i = 1 THEN 5 ELSE 0]
KeyFivePlusOrder == [BASEPOINT_ORDER EXCEPT ![1] = @ + 5]

\* The key material the check draws.
DerivationKeys ==
    {KeyMax, BASEPOINT_ORDER, KeyFive, KeyFivePlusOrder}
        \cup { Key(a, b) : a \in {0, 1, ByteMod - 1}, b \in {0, 1, 127, ByteMod - 1} }

InitDerivation ==
    /\ threads = 0
    /\ gpu = FALSE
    /\ limit = 0
    /\ output_progress = FALSE
    /\ gpu_threads = 1
    /\ accepts = {}
    /\ Started
    /\ cursor = << >>
    /\ cursorStart = << >>
    /\ cursorSteps = 0
    /\ matcher = Unused
    /\ compare = Unused
    /\ \E k \in DerivationKeys, t \in GenerateKeyType :
          derivation = [phase |-> "args", key_material |-> k, generate_key_type |-> t,
                        private_key |-> << >>, hasher |-> << >>, public_key |-> << >>]

DerivationFrame ==
    UNCHANGED << config, found_n, attempts, mainVars, pc, key, reporter, sample,
                 stdout, stderr, exitVars, notfound, batches, cursorVars,
                 matcher, compare >>

\* GenerateKeyType::PrivateKey => ed25519_privkey_to_pubkey(&key_material)
DerivePrivateKey ==
    /\ derivation.phase = "args"
    /\ derivation.generate_key_type = "PrivateKey"
    /\ derivation' = [derivation EXCEPT
                         !.phase = "done",
                         !.public_key = ed25519_privkey_to_pubkey(derivation.key_material)]
    /\ DerivationFrame

\* let mut private_key = [0u8; 32]; let mut hasher = Blake2b::new(32).unwrap();
DeriveSeedNew ==
    /\ derivation.phase = "args"
    /\ derivation.generate_key_type = "Seed"
    /\ derivation' = [derivation EXCEPT
                         !.phase = "new",
                         !.private_key = KeyZero,
                         !.hasher = [outlen |-> KeyLen, input |-> << >>]]
    /\ DerivationFrame

\* hasher.process(&key_material);
DeriveSeedProcessKey ==
    /\ derivation.phase = "new"
    /\ derivation' = [derivation EXCEPT
                         !.phase = "keyed",
                         !.hasher.input = @ \o derivation.key_material]
    /\ DerivationFrame

DeriveSeedProcessIndexOne ==
    /\ derivation.phase = "keyed"
    /\ derivation' = [derivation EXCEPT
                         !.phase = "indexed",
                         !.hasher.input = @ \o << 0, 0, 0, 1 >>]
    /\ DerivationFrame

\* hasher.process(&[0, 0, 0, 0]);
DeriveSeedProcessIndex ==
    /\ derivation.phase = "keyed"
    /\ derivation' = [derivation EXCEPT
                         !.phase = "indexed",
                         !.hasher.input = @ \o << 0, 0, 0, 0 >>]
    /\ DerivationFrame

\* hasher.variable_result(&mut private_key).unwrap();
DeriveSeedResult ==
    /\ derivation.phase = "indexed"
    /\ derivation' = [derivation EXCEPT
                         !.phase = "hashed",
                         !.private_key = Blake2b(derivation.hasher.outlen,
                                                 derivation.hasher.input)]
    /\ DerivationFrame

\* ed25519_privkey_to_pubkey(&private_key)
DeriveSeedPubkey ==
    /\ derivation.phase = "hashed"
    /\ derivation' = [derivation EXCEPT
                         !.phase = "done",
                         !.public_key = ed25519_privkey_to_pubkey(derivation.private_key)]
    /\ DerivationFrame

\* GenerateKeyType::ExtendedPrivateKey(offset) => scalar * basepoint + offset
DeriveExtended ==
    /\ derivation.phase = "args"
    /\ derivation.generate_key_type = "ExtendedPrivateKey"
    /\ derivation' = [derivation EXCEPT
                         !.phase = "done",
                         !.public_key = ExtendedPubkey(derivation.key_material)]
    /\ DerivationFrame

NextDerivation ==
    \/ DerivePrivateKey
    \/ DeriveSeedNew
    \/ DeriveSeedProcessKey
    \/ DeriveSeedProcessIndex
    \/ DeriveSeedResult
    \/ DeriveSeedPubkey
    \/ DeriveExtended

SpecDerivation == InitDerivation /\ [][NextDerivation]_vars

TypeOK ==
    /\ found_n \in Nat
    /\ attempts \in Nat
    /\ exit_code \in {0, 1, PanicCode}

\* ---------------------------------------------------------------- claims
\* The workers that have printed a Solution and not yet reached their fetch_add.
Pending == { w \in Workers : pc[w] = "fetch" }

\* Worker w takes a step out of the position p.
Leaves(w, p) == pc[w] = p /\ pc'[w] # p

\* C1: with a limit L >= 1 and W workers, at most L + (W - 1) Solutions are
\* printed, under every interleaving of the prints, the fetch_adds and the exit.
C1_BoundedOvershoot ==
    limit >= 1 => Len(stdout) <= limit + (WorkerCount - 1)

\* Every worker but the one that exits has printed one Solution past the limit.
C1_Witness ==
    /\ limit >= 1
    /\ WorkerCount >= 2
    /\ Len(stdout) = limit + (WorkerCount - 1)
    /\ exited
    /\ exit_code = 0

\* C2: the process exits with code 0 only from within a worker, only when
\* limit != 0 and only with at least limit Solutions printed; the found counter
\* never runs ahead of the Solutions printed.
C2_ExitZeroOnlyAfterLimit ==
    /\ found_n <= Len(stdout)
    /\ (exited /\ exit_code = 0) =>
          /\ exitedBy \in {"cpu", "gpu"}
          /\ limit # 0
          /\ Len(stdout) >= limit

\* The accelerator worker has ended the run at a limit of two.
C2_Witness ==
    /\ exited
    /\ exit_code = 0
    /\ exitedBy = "gpu"
    /\ limit = 2
    /\ Len(stdout) >= 2

\* C3 as stated: every worker that has printed a Solution then adds 1 to the
\* found counter, whatever the limit, 0 included.
C3_IncrementsForEveryLimit ==
    [][\A w \in Workers : Leaves(w, "fetch") => found_n' = found_n + 1]_vars

\* C3, amended: on every Found event the worker prints the Solution before
\* anything is counted: only a worker that has just printed stands before the
\* fetch_add, a print leaves the found counter alone, and a worker whose write
\* fails panics without touching the counter. After the print, when
\* limit != 0, the worker adds exactly 1 to the found counter and exits exactly
\* when the value after the increment is >= limit; when limit = 0 the found
\* counter is not touched and the worker does not exit. Nothing else changes
\* the found counter.
C3_PrintThenIncrement ==
    [][/\ \A w \in Workers :
            /\ (pc'[w] = "fetch" /\ pc[w] # "fetch") =>
                  /\ Matches(key[w])
                  /\ stdout' = Append(stdout, key[w])
                  /\ found_n' = found_n
            /\ (pc'[w] = "panicked" /\ pc[w] # "panicked") =>
                  /\ stdout' = stdout
                  /\ found_n' = found_n
            /\ Leaves(w, "fetch") =>
                  /\ stdout' = stdout
                  /\ limit # 0 => /\ found_n' = found_n + 1
                                  /\ (pc'[w] = "exit") <=> (found_n + 1 >= limit)
                  /\ limit = 0 => /\ found_n' = found_n
                                  /\ pc'[w] # "exit"
       /\ stdout' # stdout => \E w \in Workers : pc'[w] = "fetch" /\ pc[w] # "fetch"
       /\ found_n' # found_n => \E w \in Workers : Leaves(w, "fetch")
      ]_vars

\* A worker has printed its Solution and stands before its fetch_add with the
\* counter one short of the limit, and the other kind of worker has counted one.
C3_Witness ==
    /\ limit = 2
    /\ found_n = 1
    /\ Pending # {}
    /\ Len(stdout) = 2

\* C4: with progress counting on, the found counter never exceeds the attempts
\* counter.
C4_FoundAtMostAttempts ==
    output_progress => found_n <= attempts

\* Worker w takes a step of check_solution's branch for a match.
FoundStep(w) ==
    \/ pc[w] = "check" /\ Matches(key[w]) /\ pc'[w] # "check"
    \/ Leaves(w, "print")
    \/ Leaves(w, "fetch")

\* C5: with limit = 0 no worker ever reaches process::exit(0), the process never
\* exits with code 0, the found counter stays 0, and every worker goes on
\* through each Found event and back to its loop.
C5_UnboundedNeverExitsZero ==
    [][limit = 0 =>
          /\ ~(exited' /\ exit_code' = 0)
          /\ found_n' = 0
          /\ \A w \in Workers :
                /\ pc'[w] # "exit"
                /\ FoundStep(w) => pc'[w] \in {"print", "fetch", "check", "batch"}]_vars

\* C6: with a single worker and a limit L >= 1, every candidate tested is
\* printed if it matches and not at all if it does not, so stdout is the
\* matching candidates in the order tested; no more than L are printed; once L
\* are printed the worker tests nothing more and its next step is exit(0); and
\* the process has exited with code 0 only with exactly L printed.
C6_SingleWorkerPrintsExactlyLimit ==
    [][(WorkerCount = 1 /\ limit >= 1) =>
          /\ \A w \in Workers :
                /\ (pc[w] = "check" /\ Matches(key[w]) /\ pc'[w] # "check") =>
                      \/ stdout' = Append(stdout, key[w]) /\ pc'[w] = "fetch"
                      \/ stdout' = stdout /\ pc'[w] = "print"
                /\ Leaves(w, "print") =>
                      stdout' = Append(stdout, key[w]) /\ pc'[w] = "fetch"
                /\ (pc[w] = "check" /\ ~Matches(key[w])) => stdout' = stdout
                /\ pc[w] = "exit" => (pc'[w] = "exit" /\ key'[w] = key[w])
          /\ Len(stdout') <= limit
          /\ Len(stdout') = limit =>
                \A w \in Workers : pc'[w] \in {"unspawned", "fetch", "exit"}
          /\ (exited' /\ exit_code' = 0) => Len(stdout') = limit
      ]_vars

\* C7: a candidate of the accelerator that fails the host's matcher is logged as
\* a mismatch and not printed; the found counter stays, the process does not
\* exit and the accelerator worker goes on to its next batch. Nothing that
\* fails the matcher is ever on stdout.
C7_MismatchNeverPrinted ==
    [][/\ (pc[0] = "check" /\ ~Matches(key[0]) /\ pc'[0] # "check") =>
             /\ stdout' = stdout
             /\ found_n' = found_n
             /\ stderr' = Append(stderr, [msg |-> "GPU returned non-matching solution",
                                          key |-> key[0]])
             /\ pc'[0] = "batch"
             /\ ~exited'
       /\ \A i \in 1..Len(stdout') : Matches(stdout'[i])
      ]_vars

\* C8: with zero CPU workers and no accelerator, no worker is ever spawned, no
\* key material is drawn or tested, both counters stay 0, nothing blocks the
\* main thread's exit, and the only exit is the main thread's, with code 1,
\* after the message that no computation devices were specified.
C8_NoDevicesExitsOne ==
    (threads = 0 /\ ~gpu) =>
        /\ found_n = 0
        /\ attempts = 0
        /\ notfound = 0
        /\ batches = 0
        /\ stdout = << >>
        /\ \A w \in Workers : pc[w] = "unspawned" /\ key[w] = KeyZero
        /\ (mainPc = "join" /\ ~exited) => ENABLED MainNoDevices
        /\ (mainPc = "nodevices" /\ ~exited) => ENABLED MainExitOne
        /\ exited =>
              /\ exit_code = 1
              /\ exitedBy = "main"
              /\ stderr = << EstimateLine, NoDevicesLine >>

\* ---------------------------------------------------------------- C9
\* C9: the increment maps a k-byte value v, read big-endian, to (v + 1) mod
\* 256^k, so after n increments the cursor reads (first + n) mod 256^k, and the
\* first value only comes back after all 256^k values.
C9_IncrementIsSuccessor ==
    /\ BigEndian(cursor) = (BigEndian(cursorStart) + cursorSteps) % CursorValues
    /\ (cursorSteps > 0 /\ cursor = cursorStart) => cursorSteps = CursorValues

\* The cursor has carried into its first byte, wrapped around and come back.
C9_Witness ==
    /\ cursorSteps = CursorValues
    /\ cursor = cursorStart
    /\ Len(cursor) = 2

\* ---------------------------------------------------------------- C10
\* C10: with progress output disabled the attempts counter stays 0 and no
\* progress reporter runs.
C10_NoProgressNoCounting ==
    ~output_progress =>
        /\ attempts = 0
        /\ ~reporter
        /\ sample = 0

\* With progress off, a CPU worker has rejected a candidate and the accelerator
\* worker has computed a batch, after the point where the reporter would start.
C10_Witness ==
    /\ ~output_progress
    /\ notfound >= 1
    /\ batches >= 1
    /\ mainPc = "join"

\* ---------------------------------------------------------------- C11
\* C11: for maxLength1 < maxLength2 the first Threshold is below the second,
\* and an address value the first matcher accepts the second accepts too.
C11_MatcherMonotone ==
    (matcher.phase = "tested" /\ matcher.max_length1 < matcher.max_length2) =>
        /\ DecLess(matcher.threshold1, matcher.threshold2)
        /\ matcher.accepted1 => matcher.accepted2

\* The largest address value the shorter matcher accepts is tested, and the
\* longer matcher, whose Threshold is ten times as large, accepts it too.
C11_Witness ==
    /\ matcher.phase = "tested"
    /\ matcher.max_length1 = MaxLength - 1
    /\ matcher.max_length2 = MaxLength
    /\ matcher.address = Nines(MaxLength - 1)
    /\ matcher.accepted1
    /\ matcher.accepted2

\* ---------------------------------------------------------------- C12
\* C12: for an address value and a Threshold of the same fixed width, the
\* lexicographic comparison of their big-endian byte arrays accepts exactly
\* when the numeric comparison value < Threshold accepts.
C12_BytesAgreeWithNumeric ==
    compare.phase = "compared" => (compare.accept_bytes <=> compare.accept_numeric)

\* A value and a Threshold that differ across a byte boundary (255 against
\* 256) have been exported and compared, and both tests accept.
C12_Witness ==
    /\ compare.phase = "compared"
    /\ compare.value = ByteMod - 1
    /\ compare.threshold = ByteMod
    /\ compare.value_bytes[CmpWidth] = ByteMod - 1
    /\ compare.threshold_bytes[CmpWidth] = 0
    /\ compare.accept_bytes
    /\ compare.accept_numeric

\* ---------------------------------------------------------------- C13
\* C13: the Seed derivation of a 32-byte seed returns the public key that the
\* PrivateKey derivation returns for the 32-byte hash of the seed followed by
\* the four zero bytes of account index 0.
C13_SeedIsPrivateKeyOfHash ==
    (derivation.phase = "done" /\ derivation.generate_key_type = "Seed") =>
        derivation.public_key =
            ed25519_privkey_to_pubkey(
                Blake2b(KeyLen, derivation.key_material \o [i \in 1..4 |-> 0]))

\* The Seed derivation of the all-0xFF seed has finished: the hasher was fed
\* 36 bytes and the public key was taken from its 32-byte result.
C13_Witness ==
    /\ derivation.phase = "done"
    /\ derivation.generate_key_type = "Seed"
    /\ derivation.key_material = KeyMax
    /\ Len(derivation.hasher.input) = KeyLen + 4
    /\ derivation.private_key = Blake2b(KeyLen, derivation.hasher.input)
    /\ derivation.public_key = ed25519_privkey_to_pubkey(derivation.private_key)

\* ---------------------------------------------------------------- C14
\* C14: with progress counting on, every iteration of the accelerator worker
\* adds exactly the batch size to the attempts counter, whatever the batch
\* returned; the re-validation of a candidate, whether it passes or fails, and
\* the limit check after a print add nothing.
C14_BatchCountsBatchSize ==
    [][output_progress =>
         /\ batches' # batches =>
               /\ batches' = batches + 1
               /\ attempts' = attempts + gpu_threads
         /\ (Leaves(0, "check") \/ Leaves(0, "fetch")) => attempts' = attempts]_vars

\* The accelerator worker alone, with a batch size of 3, has made three
\* iterations: one returned nothing, one a candidate that failed
\* re-validation, one a candidate that passed and was printed; 9 attempts.
C14_Witness ==
    /\ threads = 0
    /\ gpu
    /\ output_progress
    /\ gpu_threads = 3
    /\ batches = 3
    /\ Len(stderr) = 3
    /\ stderr[2].msg = "GPU returned non-matching solution"
    /\ stderr[3] = EmptyLine
    /\ Len(stdout) = 1
    /\ pc[0] = "batch"
    /\ attempts = 9

\* ---------------------------------------------------------------- C15
\* C15 as stated: for every maximum length N in 1..20 the Threshold 10^N lies
\* in (0, 2^64].
C15_ThresholdInU64Range ==
    matcher.phase = "built" =>
        /\ DecLess(<< 0 >>, matcher.threshold1)
        /\ DecLess(matcher.threshold1, U64Range) \/ matcher.threshold1 = U64Range

\* C15, amended: for every maximum length N in 1..19 the Threshold 10^N lies in
\* (0, 2^64), and for N = 20 it lies above 2^64.
C15_ThresholdInU64RangeBelowTwenty ==
    matcher.phase = "built" =>
        /\ DecLess(<< 0 >>, matcher.threshold1)
        /\ matcher.max_length1 < MaxLength => DecLess(matcher.threshold1, U64Range)
        /\ matcher.max_length1 = MaxLength => DecLess(U64Range, matcher.threshold1)

\* The matcher for the largest length that still fits has been built.
C15_Witness ==
    /\ matcher.phase = "built"
    /\ matcher.max_length1 = MaxLength - 1
    /\ matcher.threshold1 = TenPow(MaxLength - 1)

\* ---------------------------------------------------------------- C16
\* k2 is k plus 1 as a big-endian unsigned integer, with wraparound: the
\* trailing 0xFF bytes become 0, the byte before them grows by one and the
\* bytes before that keep their value.
IsSuccessor(k, k2) ==
    \/ /\ \A i \in 1..Len(k) : k[i] = ByteMod - 1
       /\ \A i \in 1..Len(k) : k2[i] = 0
    \/ \E i \in 1..Len(k) :
          /\ k[i] < ByteMod - 1
          /\ k2[i] = k[i] + 1
          /\ \A j \in (i + 1)..Len(k) : k[j] = ByteMod - 1 /\ k2[j] = 0
          /\ \A j \in 1..(i - 1) : k2[j] = k[j]

\* C16: a CPU worker that goes on after a Found takes its next candidate from a
\* fresh draw and not from an increment; after a NotFound its next candidate is
\* the previous KeyMaterial plus 1; a step that writes one worker's
\* KeyMaterial is that worker's own step (or the main thread's first draw for
\* it) and touches no other worker's KeyMaterial or position.
C16_RedrawAfterFoundIncrementAfterNotFound ==
    [][/\ \A w \in CpuWorkers :
             (pc[w] = "fetch" /\ pc'[w] = "check") =>
                 /\ key'[w] \in DrawSet
                 /\ ~IsSuccessor(key[w], key'[w])
       /\ notfound' # notfound =>
             \E w \in CpuWorkers :
                 /\ pc[w] = "check"
                 /\ ~Matches(key[w])
                 /\ IsSuccessor(key[w], key'[w])
       /\ \A w \in Workers :
             key'[w] # key[w] =>
                 /\ pc[w] \in (IF IsGpu(w) THEN {"batch"} ELSE {"unspawned", "check", "fetch"})
                 /\ \A v \in Workers \ {w} : key'[v] = key[v] /\ pc'[v] = pc[v]]_vars

\* The CPU worker drew 0x00FF, found it rejected, incremented it to 0x0100,
\* printed that, and then went on with a fresh draw of all 0xFF; meanwhile the
\* accelerator worker holds a candidate of its own.
C16_Witness ==
    /\ threads = 1
    /\ gpu
    /\ limit = 2
    /\ found_n = 1
    /\ notfound = 1
    /\ stdout = << Key(1, 0) >>
    /\ pc[1] = "check"
    /\ key[1] = KeyMax
    /\ pc[0] = "check"
    /\ key[0] = Key(0, ByteMod - 1)

\* ---------------------------------------------------------------- C17
\* C17: a step of the progress reporter, whether it reads the attempts counter
\* and writes its progress line or panics on that write, changes nothing but
\* the reporter's own state: the attempts counter, the found counter, every
\* worker's KeyMaterial and position, the Solutions printed and the exit
\* outcome stay as they were, so the workers go on from the very state they
\* were in.
C17_ReporterOnlyReads ==
    [][(sample' # sample \/ (reporter /\ ~reporter')) =>
         /\ reporter
         /\ reporter' => sample' = attempts
         /\ UNCHANGED << config, attempts, found_n, key, pc, mainVars, stdout,
                         stderr, exitVars, notfound, batches >>]_vars

\* The reporter has sampled a counter that CPU workers and the accelerator
\* worker have raised, while a Solution was printed and counted.
C17_Witness ==
    /\ reporter
    /\ sample = attempts
    /\ sample >= 2
    /\ found_n = 1
    /\ Len(stdout) = 1
    /\ ~exited

\* ---------------------------------------------------------------- C18
\* C18: with limit != 0 the found counter is the number of Solutions printed
\* minus the number of workers that have printed and not yet made their
\* fetch-and-add; so found <= printed <= found + W for W workers.
C18_FoundIsPrintedMinusPending ==
    limit # 0 =>
        /\ found_n = Len(stdout) - Cardinality(Pending)
        /\ found_n <= Len(stdout)
        /\ Len(stdout) <= found_n + WorkerCount

\* One Solution has been printed and counted, and two workers have each
\* printed one more and stand before their fetch-and-add.
C18_Witness ==
    /\ limit = 2
    /\ found_n = 1
    /\ Cardinality(Pending) = 2
    /\ Len(stdout) = 3
    /\ ~exited

\* ---------------------------------------------------------------- C19
\* C19: with progress counting on, the attempts counter is the number of
\* NotFound tests the CPU workers have completed plus the batch size times the
\* number of iterations the accelerator worker has completed, before and after
\* every step; and no step makes the counter smaller.
C19_AttemptsIsTestsPlusBatches ==
    [][/\ attempts' >= attempts
       /\ output_progress =>
             /\ attempts = notfound + gpu_threads * batches
             /\ attempts' = notfound' + gpu_threads * batches']_vars

\* The CPU worker and the accelerator worker, with a batch size of 3, have
\* both counted: two NotFound tests and one batch make 5 attempts.
C19_Witness ==
    /\ output_progress
    /\ threads = 1
    /\ gpu_threads = 3
    /\ notfound = 2
    /\ batches = 1
    /\ attempts = 5
    /\ pc[1] = "check"
    /\ key[1] \notin DrawSet

\* ---------------------------------------------------------------- C20
\* The "no computation devices" message has been written.
NoDevicesReported ==
    \E i \in 1..Len(stderr) : stderr[i].msg = "No computation devices specified"

\* The process was ended by a worker's exit with code 0 after the limit was
\* reached.
WorkerExitedZero ==
    /\ exit_code = 0
    /\ exitedBy \in {"cpu", "gpu"}
    /\ limit # 0
    /\ found_n >= limit

\* C20 as stated: with at least one CPU worker or the accelerator worker
\* configured, the main thread stays blocked at its join, the "no computation
\* devices" exit is unreachable, and from there the process stops by itself
\* only through a worker's exit with code 0 after the limit is reached.
C20_StopsOnlyByWorkerExitZero ==
    [][(WorkerCount >= 1 /\ mainPc = "join") =>
          /\ mainPc' = "join"
          /\ ~NoDevicesReported'
          /\ ~ENABLED MainNoDevices
          /\ exited' => WorkerExitedZero']_vars

\* The thread whose end the main thread waits for at its first join: the
\* accelerator thread when there is one, otherwise the first CPU worker.
JoinedFirst == IF gpu THEN 0 ELSE 1

\* C20, amended: with at least one CPU worker or the accelerator worker
\* configured, the "no computation devices" exit with code 1 is unreachable;
\* the process stops by itself through a worker's exit with code 0 after the
\* limit is reached, or through a panic of the main thread: before the join
\* (a failed write of its first line, a failed start of a worker's RNG, of a
\* thread or of the accelerator), or at the join when the thread it waits for
\* has panicked.
C20_NoDevicesExitUnreachable ==
    [][WorkerCount >= 1 =>
          /\ ~NoDevicesReported'
          /\ ~ENABLED MainNoDevices
          /\ exit_code' # 1
          /\ (~exited /\ exited') =>
                \/ WorkerExitedZero'
                \/ /\ exit_code' = PanicCode
                   /\ exitedBy' = "main"
                   /\ \/ mainPc \in {"estimate", "spawn", "progress"}
                      \/ mainPc = "join" /\ pc[JoinedFirst] = "panicked"]_vars

\* With one CPU worker and no accelerator, the main thread stands at the join
\* while the worker reaches the limit and exits with code 0.
C20_Witness ==
    /\ threads = 1
    /\ ~gpu
    /\ mainPc = "join"
    /\ exited
    /\ WorkerExitedZero
    /\ ~NoDevicesReported

====
